---- MODULE Spec2Model ----
(***************************************************************************)
(* Order / inventory / cart consistency of the StallionWear back end.      *)
(*                                                                         *)
(* The document store is modelled by its collections: products (with      *)
(* their variants), orders, and the carts and wishlists of the users.     *)
(* Every request handler of the order controller is a small process: one  *)
(* action per database round trip (each `await` of the handler is a point *)
(* where another request may run).  The cart and wishlist handlers and    *)
(* the administrator's product updates are served whole, one at a time.   *)
(* Money is counted in hundredths, so that the 0.01 tolerance of the      *)
(* order schema is the integer Epsilon.                                    *)
(***************************************************************************)
EXTENDS Integers, Sequences, FiniteSets, TLC

\* ---------------------------------------------------------------- bounds
MaxStock == 2
MaxQty == 2
MaxOrders == 2
MaxMergeInto == 3

\* ------------------------------------------------------ program constants
Epsilon == 1
MinAmount == 1
\* the largest quantity the cart controller accepts for one line
MaxCartQuantity == 100

Reqs == {"r1", "r2"}
Users == {"u1", "u2", "a1"}

RoleOf(u) == IF u = "a1" THEN "admin" ELSE "user"

OrderStatuses_WithReturned ==
  {"Processing", "Confirmed", "Shipped", "Delivered", "Cancelled", "Returned"}

OrderStatuses == {"Processing", "Confirmed", "Shipped", "Delivered", "Cancelled"}
PaymentStatuses_NoRefund == {"Pending", "Paid", "Failed"}

PaymentStatuses == {"Pending", "Paid", "Failed", "Refunded"}
PaymentMethods == {"CashOnDelivery", "Stripe", "PayPal"}

NoAmount == 0 - 1
NoText == ""

VARIABLES products, orders, cart, wishlist, req, initStock, roundTrip

vars == <<products, orders, cart, wishlist, req, initStock, roundTrip>>

\* ------------------------------------------------------------- utilities
Max(a, b) == IF a >= b THEN a ELSE b

Abs(a) == IF a >= 0 THEN a ELSE 0 - a

RECURSIVE SumSeq(_)
SumSeq(s) == IF s = <<>> THEN 0 ELSE Head(s) + SumSeq(Tail(s))

\* ------------------------------------------------------- product methods
\* the position of the first variant with this size and color, 0 if none
\* (Array.prototype.find returns the first match)
VariantIndex(product, size, color) ==
  LET Match(i) == /\ product.variants[i].size = size
                  /\ product.variants[i].color = color
      n == Len(product.variants)
  IN IF \E i \in 1..n : Match(i)
     THEN CHOOSE i \in 1..n : Match(i) /\ \A j \in 1..(i - 1) : ~Match(j)
     ELSE 0

\* productSchema.methods.getVariant: presence of the matching variant
HasVariant(product, size, color) == VariantIndex(product, size, color) # 0

getVariant(product, size, color) ==
  product.variants[VariantIndex(product, size, color)]

isInStock(product, size, color, quantity) ==
  /\ HasVariant(product, size, color)
  /\ getVariant(product, size, color).quantity >= quantity

\* the quantity updateVariantStock stores for a variant that exists
updateVariantStock_NoClamp(quantityNow, quantity) ==
  quantityNow - quantity

updateVariantStock_KeepWhenShort(quantityNow, quantity) ==
  IF quantityNow >= quantity THEN quantityNow - quantity ELSE quantityNow

updateVariantStock(quantityNow, quantity) ==
  Max(0, quantityNow - quantity)

getFinalPrice_NoModifier(product, size, color) ==
  product.price

getFinalPrice(product, size, color) ==
  LET modifier == IF HasVariant(product, size, color)
                  THEN getVariant(product, size, color).priceModifier
                  ELSE 0
  IN product.price + modifier

\* --------------------------------------------------------- order methods
\* orderSchema.pre("save"): "ok" or the error the hook passes to next()
itemsTotal(order) ==
  SumSeq([i \in 1..Len(order.orderItems) |->
            order.orderItems[i].price * order.orderItems[i].quantity])

preSave(order) ==
  IF Abs(order.totalAmount - itemsTotal(order)) > Epsilon
  THEN "TotalMismatch"
  ELSE IF Abs(order.finalAmount
              - (order.totalAmount + order.shippingCharge - order.discount))
          > Epsilon
       THEN "FinalMismatch"
       ELSE "ok"

\* the schema validators that run on Order.create
schemaValid(order) ==
  /\ \A i \in 1..Len(order.orderItems) :
        /\ order.orderItems[i].quantity >= 1
        /\ order.orderItems[i].price >= MinAmount
        /\ order.orderItems[i].subtotal >= 0
  /\ order.shippingCharge >= 0
  /\ order.discount >= 0
  /\ order.totalAmount >= MinAmount
  /\ order.finalAmount >= MinAmount
  /\ order.paymentMethod \in PaymentMethods

canBeCancelled_AlsoShipped(order) ==
  order.orderStatus \in {"Processing", "Confirmed", "Shipped"}

canBeCancelled(order) ==
  order.orderStatus \in {"Processing", "Confirmed"}

computeFinalAmount_TrustClient(calculatedTotal, shippingCharge, discount, submitted) ==
  IF submitted # NoAmount
  THEN submitted
  ELSE calculatedTotal + shippingCharge - discount

\* createOrder: the final amount is computed from the server's own total;
\* a finalAmount field of the request body is never read
computeFinalAmount(calculatedTotal, shippingCharge, discount, submitted) ==
  calculatedTotal + shippingCharge - discount

restoredQuantity_Assign(quantityNow, quantity) ==
  quantity

\* cancelOrder: variant.quantity += item.quantity
restoredQuantity(quantityNow, quantity) ==
  quantityNow + quantity

\* ------------------------------------------------------------ the store
InitProducts(qL, qM) ==
  [p \in {"p1"} |->
     [name |-> "Shirt", price |-> 2000, stock |-> 0,
      variants |-> <<[size |-> "L", color |-> "Red", quantity |-> qL,
                      priceModifier |-> 200],
                     [size |-> "M", color |-> "Red", quantity |-> qM,
                      priceModifier |-> 0]>>]]

NoOrder ==
  [user |-> "u1", orderItems |-> <<>>, paymentMethod |-> "CashOnDelivery",
   shippingCharge |-> 0, discount |-> 0, totalAmount |-> 0, finalAmount |-> 0,
   orderStatus |-> "Processing", paymentStatus |-> "Pending",
   trackingNumber |-> NoText, isDelivered |-> FALSE, deliveredAt |-> NoText]

Idle ==
  [op |-> "idle", pc |-> "idle", user |-> "u1",
   orderItems |-> <<>>, addressComplete |-> TRUE,
   paymentMethod |-> "CashOnDelivery",
   shippingCharge |-> 0, discount |-> 0, finalAmountIn |-> NoAmount,
   orderId |-> 0, newStatus |-> NoText, paymentStatusIn |-> NoText,
   trackingIn |-> NoText,
   key |-> <<NoText, NoText, NoText>>, quantityIn |-> 0, priceIn |-> 0,
   preCart |-> <<>>,
   idx |-> 0, processed |-> <<>>, calculatedTotal |-> 0,
   vIdx |-> 0, newQty |-> 0, doc |-> NoOrder, dirty |-> {},
   result |-> NoText, pre |-> InitProducts(0, 0), was |-> NoText]

NoRoundTrip == [order |-> 0, pre |-> InitProducts(0, 0)]

\* the variants of the catalogue, as (product, size, color)
VariantKeys ==
  UNION {{<<p, products[p].variants[i].size, products[p].variants[i].color>> :
             i \in 1..Len(products[p].variants)} : p \in DOMAIN products}

StockIn(prods, key) ==
  IF key[1] \in DOMAIN prods /\ HasVariant(prods[key[1]], key[2], key[3])
  THEN getVariant(prods[key[1]], key[2], key[3]).quantity
  ELSE 0

Stock(key) == StockIn(products, key)

CartLine ==
  [product |-> "p1", size |-> "M", color |-> "Red", quantity |-> 1,
   priceAtTime |-> 2000]

WishLine ==
  [product |-> "p1", size |-> "L", color |-> "Red", priceAtTime |-> 2200]

Init ==
  /\ \E qL \in 1..MaxStock : products = InitProducts(qL, 1)
  /\ orders = <<>>
  /\ cart \in [Users -> {<<>>, <<CartLine>>}]
  /\ \A u \in Users : u # "u1" => cart[u] = <<>>
  /\ wishlist = [u \in Users |-> IF u = "u1" THEN <<WishLine>> ELSE <<>>]
  /\ req = [r \in Reqs |-> Idle]
  /\ initStock = [k \in {<<"p1", "L", "Red">>, <<"p1", "M", "Red">>} |->
                    StockIn(products, k)]
  /\ roundTrip = NoRoundTrip

OthersQuiet(r) == \A r2 \in Reqs \ {r} : req[r2].op = "idle"

\* a request that ends: its outcome, kept until the slot is reused
Done(rec, outcome) == [rec EXCEPT !.pc = "done", !.result = outcome]

\* ------------------------------------------------------------ createOrder
\* creations that have not yet persisted their order
PendingCreates ==
  Cardinality({r \in Reqs : req[r].op = "createOrder"
                            /\ req[r].pc \in {"co_item", "co_create"}})

\* the request arrives: validateOrderCreation and the controller's checks of
\* the item list, the address, the payment method and the charges
BeginCreateOrder(r, u, items, ship, disc, finalIn, addrOk, method) ==
  /\ req[r].op = "idle"
  /\ Len(orders) + PendingCreates < MaxOrders
  /\ LET rec == [Idle EXCEPT !.op = "createOrder", !.user = u,
                             !.orderItems = items, !.addressComplete = addrOk,
                             !.paymentMethod = method,
                             !.shippingCharge = ship, !.discount = disc,
                             !.finalAmountIn = finalIn, !.pre = products,
                             !.preCart = cart[u]]
     IN req' = [req EXCEPT ![r] =
          IF Len(items) = 0 THEN Done(rec, "ValidationError")
          ELSE IF ~addrOk THEN Done(rec, "ValidationError")
          ELSE IF method \notin PaymentMethods THEN Done(rec, "ValidationError")
          ELSE IF ship < 0 THEN Done(rec, "ValidationError")
          ELSE IF disc < 0 THEN Done(rec, "ValidationError")
          ELSE [rec EXCEPT !.pc = "co_item", !.idx = 1]]
  /\ roundTrip' = NoRoundTrip
  /\ UNCHANGED <<products, orders, cart, wishlist, initStock>>

\* one turn of the validation loop: Product.findById, isInStock,
\* getFinalPrice, the processed item
CreateOrderItem(r) ==
  /\ req[r].op = "createOrder" /\ req[r].pc = "co_item"
  /\ LET rec == req[r]
         item == rec.orderItems[rec.idx]
     IN req' = [req EXCEPT ![r] =
          IF item.product = NoText \/ item.size = NoText
             \/ item.color = NoText \/ item.quantity = 0
          THEN Done(rec, "ValidationError")
          ELSE IF item.product \notin DOMAIN products
          THEN Done(rec, "ProductNotFound")
          ELSE IF ~isInStock(products[item.product], item.size, item.color,
                             item.quantity)
          THEN Done(rec, "InsufficientStock")
          ELSE LET product == products[item.product]
                   currentPrice == getFinalPrice(product, item.size, item.color)
                   subtotal == currentPrice * item.quantity
                   processedItem ==
                     [product |-> item.product, productName |-> product.name,
                      size |-> item.size, color |-> item.color,
                      quantity |-> item.quantity, price |-> currentPrice,
                      subtotal |-> subtotal]
               IN [rec EXCEPT
                     !.processed = Append(@, processedItem),
                     !.calculatedTotal = @ + subtotal,
                     !.idx = @ + 1,
                     !.pc = IF rec.idx = Len(rec.orderItems)
                            THEN "co_create" ELSE "co_item"]]
  /\ UNCHANGED <<products, orders, cart, wishlist, initStock, roundTrip>>

CreateOrderPersist_CheckAfterCreate(r) ==
  /\ req[r].op = "createOrder" /\ req[r].pc = "co_create"
  /\ LET rec == req[r]
         finalAmount == computeFinalAmount(rec.calculatedTotal,
                          rec.shippingCharge, rec.discount, rec.finalAmountIn)
         newOrder ==
           [NoOrder EXCEPT !.user = rec.user, !.orderItems = rec.processed,
                           !.shippingCharge = rec.shippingCharge,
                           !.discount = rec.discount,
                           !.totalAmount = rec.calculatedTotal,
                           !.finalAmount = finalAmount]
     IN /\ orders' = Append(orders, newOrder)
        /\ req' = [req EXCEPT ![r] =
             IF finalAmount <= 0 THEN Done(rec, "InvalidAmount")
             ELSE [rec EXCEPT !.orderId = Len(orders) + 1,
                              !.pc = "co_dec_find", !.idx = 1]]
  /\ UNCHANGED <<products, cart, wishlist, initStock, roundTrip>>

\* the final amount and Order.create, with the schema validators and the
\* pre-validate / pre-save hooks of the order model
CreateOrderPersist(r) ==
  /\ req[r].op = "createOrder" /\ req[r].pc = "co_create"
  /\ LET rec == req[r]
         finalAmount == computeFinalAmount(rec.calculatedTotal,
                          rec.shippingCharge, rec.discount, rec.finalAmountIn)
         newOrder ==
           [user |-> rec.user,
            orderItems |-> [i \in 1..Len(rec.processed) |->
                              [rec.processed[i] EXCEPT
                                 !.subtotal = rec.processed[i].price
                                              * rec.processed[i].quantity]],
            paymentMethod |-> rec.paymentMethod,
            shippingCharge |-> rec.shippingCharge,
            discount |-> rec.discount,
            totalAmount |-> rec.calculatedTotal,
            finalAmount |-> finalAmount,
            orderStatus |-> "Processing", paymentStatus |-> "Pending",
            trackingNumber |-> NoText, isDelivered |-> FALSE,
            deliveredAt |-> NoText]
     IN IF finalAmount <= 0
        THEN /\ req' = [req EXCEPT ![r] = Done(rec, "InvalidAmount")]
             /\ UNCHANGED orders
        ELSE IF ~schemaValid(newOrder)
        THEN /\ req' = [req EXCEPT ![r] = Done(rec, "OrderValidationFailed")]
             /\ UNCHANGED orders
        ELSE IF preSave(newOrder) # "ok"
        THEN /\ req' = [req EXCEPT ![r] = Done(rec, "AmountMismatch")]
             /\ UNCHANGED orders
        ELSE /\ orders' = Append(orders, newOrder)
             /\ req' = [req EXCEPT ![r] =
                  [rec EXCEPT !.orderId = Len(orders) + 1,
                              !.pc = "co_dec_find", !.idx = 1]]
  /\ UNCHANGED <<products, cart, wishlist, initStock, roundTrip>>

\* stock loop, first half: Product.findById and updateVariantStock on the
\* loaded document, up to its call of save()
CreateOrderDecFind(r) ==
  /\ req[r].op = "createOrder" /\ req[r].pc = "co_dec_find"
  /\ LET rec == req[r]
         item == rec.orderItems[rec.idx]
     IN req' = [req EXCEPT ![r] =
          IF item.product \notin DOMAIN products
          THEN Done(rec, "ServerError")
          ELSE IF ~HasVariant(products[item.product], item.size, item.color)
          THEN Done(rec, "VariantNotFound")
          ELSE [rec EXCEPT
                  !.vIdx = VariantIndex(products[item.product], item.size,
                                        item.color),
                  !.newQty = updateVariantStock(
                               getVariant(products[item.product], item.size,
                                          item.color).quantity,
                               item.quantity),
                  !.pc = "co_dec_save"]]
  /\ UNCHANGED <<products, orders, cart, wishlist, initStock, roundTrip>>

CreateOrderDecSave_ClearsCart(r) ==
  /\ req[r].op = "createOrder" /\ req[r].pc = "co_dec_save"
  /\ LET rec == req[r]
         item == rec.orderItems[rec.idx]
     IN /\ item.product \in DOMAIN products
        /\ products' = [products EXCEPT
             ![item.product].variants[rec.vIdx].quantity = rec.newQty]
        /\ req' = [req EXCEPT ![r] =
             [rec EXCEPT !.idx = @ + 1,
                         !.pc = IF rec.idx = Len(rec.orderItems)
                                THEN "co_clear" ELSE "co_dec_find"]]
  /\ cart' = [cart EXCEPT ![req[r].user] = <<>>]
  /\ UNCHANGED <<orders, wishlist, initStock, roundTrip>>

\* stock loop, second half: save() writes the one modified path,
\* variants.<index>.quantity, with the value computed from the loaded copy
CreateOrderDecSave(r) ==
  /\ req[r].op = "createOrder" /\ req[r].pc = "co_dec_save"
  /\ LET rec == req[r]
         item == rec.orderItems[rec.idx]
     IN IF item.product \notin DOMAIN products
           \/ rec.vIdx > Len(products[item.product].variants)
        THEN /\ req' = [req EXCEPT ![r] = Done(rec, "ServerError")]
             /\ UNCHANGED products
        ELSE /\ products' = [products EXCEPT
                  ![item.product].variants[rec.vIdx].quantity = rec.newQty]
             /\ req' = [req EXCEPT ![r] =
                  [rec EXCEPT !.idx = @ + 1,
                              !.pc = IF rec.idx = Len(rec.orderItems)
                                     THEN "co_clear" ELSE "co_dec_find"]]
  /\ UNCHANGED <<orders, cart, wishlist, initStock, roundTrip>>

CreateOrderClearCart_OrderedLinesOnly(r) ==
  /\ req[r].op = "createOrder" /\ req[r].pc = "co_clear"
  /\ cart' = [cart EXCEPT ![req[r].user] =
       SelectSeq(@, LAMBDA l :
         \A i \in 1..Len(req[r].orderItems) :
           <<req[r].orderItems[i].product, req[r].orderItems[i].size,
             req[r].orderItems[i].color>> # <<l.product, l.size, l.color>>)]
  /\ req' = [req EXCEPT ![r] = Done(req[r], "Created")]
  /\ roundTrip' = NoRoundTrip
  /\ UNCHANGED <<products, orders, wishlist, initStock>>

\* User.findByIdAndUpdate(userId, {$set: {cart: []}}), then the response
CreateOrderClearCart(r) ==
  /\ req[r].op = "createOrder" /\ req[r].pc = "co_clear"
  /\ cart' = [cart EXCEPT ![req[r].user] = <<>>]
  /\ req' = [req EXCEPT ![r] = Done(req[r], "Created")]
  /\ roundTrip' = IF OthersQuiet(r)
                  THEN [order |-> req[r].orderId, pre |-> req[r].pre]
                  ELSE NoRoundTrip
  /\ UNCHANGED <<products, orders, wishlist, initStock>>

\* ------------------------------------------------------------ cancelOrder
findOrder_AnyPrincipal(u, oid) ==
  oid \in 1..Len(orders)

\* Order.findOne with the ownership query
findOrder(u, oid) ==
  /\ oid \in 1..Len(orders)
  /\ (RoleOf(u) = "admin" \/ orders[oid].user = u)

\* the request arrives: Order.findOne, then order.cancel() up to its save()
BeginCancelOrder(r, u, oid) ==
  /\ req[r].op = "idle"
  /\ LET rec == [Idle EXCEPT !.op = "cancelOrder", !.user = u,
                             !.orderId = oid, !.pre = products]
     IN req' = [req EXCEPT ![r] =
          IF ~findOrder(u, oid) THEN Done(rec, "OrderNotFound")
          ELSE IF ~canBeCancelled(orders[oid])
          THEN Done([rec EXCEPT !.doc = orders[oid],
                                !.was = orders[oid].orderStatus],
                    "InvalidTransition")
          ELSE [rec EXCEPT
                  !.doc = [orders[oid] EXCEPT !.orderStatus = "Cancelled"],
                  !.was = orders[oid].orderStatus,
                  !.pc = "ca_save"]]
  /\ roundTrip' = IF roundTrip.order = oid /\ oid # 0
                  THEN roundTrip ELSE NoRoundTrip
  /\ UNCHANGED <<products, orders, cart, wishlist, initStock>>

\* order.save(): the pre-save hook, then the write of the modified path
CancelOrderSave(r) ==
  /\ req[r].op = "cancelOrder" /\ req[r].pc = "ca_save"
  /\ LET rec == req[r]
     IN IF preSave(rec.doc) # "ok"
        THEN /\ req' = [req EXCEPT ![r] = Done(rec, "AmountMismatch")]
             /\ UNCHANGED orders
        ELSE /\ orders' = [orders EXCEPT
                  ![rec.orderId].orderStatus = rec.doc.orderStatus]
             /\ req' = [req EXCEPT ![r] =
                  [rec EXCEPT !.pc = "ca_find", !.idx = 1]]
  /\ UNCHANGED <<products, cart, wishlist, initStock, roundTrip>>

CancelOrderFind_FailWhenMissing(r) ==
  /\ req[r].op = "cancelOrder" /\ req[r].pc = "ca_find"
  /\ LET rec == req[r]
         item == rec.doc.orderItems[rec.idx]
     IN req' = [req EXCEPT ![r] =
          IF item.product \in DOMAIN products
             /\ HasVariant(products[item.product], item.size, item.color)
          THEN [rec EXCEPT
                  !.vIdx = VariantIndex(products[item.product], item.size,
                                        item.color),
                  !.newQty = restoredQuantity(
                               getVariant(products[item.product], item.size,
                                          item.color).quantity,
                               item.quantity),
                  !.pc = "ca_restore"]
          ELSE Done(rec, "VariantNotFound")]
  /\ UNCHANGED <<products, orders, cart, wishlist, initStock, roundTrip>>

\* restoration loop, first half: Product.findById, getVariant and
\* variant.quantity += item.quantity on the loaded copy; an item whose
\* product or variant is gone is skipped
CancelOrderFind(r) ==
  /\ req[r].op = "cancelOrder" /\ req[r].pc = "ca_find"
  /\ LET rec == req[r]
         item == rec.doc.orderItems[rec.idx]
         last == rec.idx = Len(rec.doc.orderItems)
     IN req' = [req EXCEPT ![r] =
          IF item.product \in DOMAIN products
             /\ HasVariant(products[item.product], item.size, item.color)
          THEN [rec EXCEPT
                  !.vIdx = VariantIndex(products[item.product], item.size,
                                        item.color),
                  !.newQty = restoredQuantity(
                               getVariant(products[item.product], item.size,
                                          item.color).quantity,
                               item.quantity),
                  !.pc = "ca_restore"]
          ELSE IF last THEN Done(rec, "Cancelled")
          ELSE [rec EXCEPT !.idx = @ + 1]]
  /\ UNCHANGED <<products, orders, cart, wishlist, initStock, roundTrip>>

\* restoration loop, second half: product.save()
CancelOrderRestore(r) ==
  /\ req[r].op = "cancelOrder" /\ req[r].pc = "ca_restore"
  /\ LET rec == req[r]
         item == rec.doc.orderItems[rec.idx]
         last == rec.idx = Len(rec.doc.orderItems)
     IN IF item.product \notin DOMAIN products
           \/ rec.vIdx > Len(products[item.product].variants)
        THEN /\ req' = [req EXCEPT ![r] = Done(rec, "SaveFailed")]
             /\ UNCHANGED products
        ELSE /\ products' = [products EXCEPT
                  ![item.product].variants[rec.vIdx].quantity = rec.newQty]
             /\ req' = [req EXCEPT ![r] =
                  IF last THEN Done(rec, "Cancelled")
                  ELSE [rec EXCEPT !.idx = @ + 1, !.pc = "ca_find"]]
  /\ UNCHANGED <<orders, cart, wishlist, initStock, roundTrip>>

\* ------------------------------------------------------ updateOrderStatus
\* the setter of a String path declared with trim: true, on the texts the
\* requests send
trim(text) == IF text = " TRK1 " THEN "TRK1" ELSE text

updateStatus_TrackingWhenShipped(order, newStatus, trackingNumber) ==
  [order EXCEPT
     !.orderStatus = newStatus,
     !.trackingNumber = IF trackingNumber # NoText /\ newStatus = "Shipped"
                        THEN trim(trackingNumber) ELSE @,
     !.isDelivered = IF newStatus = "Delivered" THEN TRUE ELSE @,
     !.deliveredAt = IF newStatus = "Delivered" THEN "now" ELSE @]

\* orderSchema.methods.updateStatus on the loaded document, up to save():
\* the document after the assignments, and the paths they modified
updateStatus(order, newStatus, trackingNumber) ==
  [order EXCEPT
     !.orderStatus = newStatus,
     !.trackingNumber = IF trackingNumber # NoText
                        THEN trim(trackingNumber) ELSE @,
     !.isDelivered = IF newStatus = "Delivered" THEN TRUE ELSE @,
     !.deliveredAt = IF newStatus = "Delivered" THEN "now" ELSE @]

StatusFields ==
  {"orderStatus", "paymentStatus", "trackingNumber", "isDelivered", "deliveredAt"}

modifiedPaths(loaded, doc) == {f \in StatusFields : doc[f] # loaded[f]}

\* save() writes the modified paths of the local copy onto the stored order
writePaths(stored, doc, paths) ==
  [f \in DOMAIN stored |-> IF f \in paths THEN doc[f] ELSE stored[f]]

\* what follows the status part of the handler: the payment status part
\* when a valid paymentStatus was sent, the response otherwise
AfterStatus(rec) ==
  IF rec.paymentStatusIn # NoText /\ rec.paymentStatusIn \in PaymentStatuses
  THEN [rec EXCEPT
          !.dirty = modifiedPaths(rec.doc,
                      [rec.doc EXCEPT !.paymentStatus = rec.paymentStatusIn]),
          !.doc = [rec.doc EXCEPT !.paymentStatus = rec.paymentStatusIn],
          !.pc = "us_pay_save"]
  ELSE Done(rec, "Updated")

\* the request arrives: the admin check, Order.findById, updateStatus up to
\* its save()
BeginUpdateOrderStatus(r, u, oid, newStatus, payIn, trackIn) ==
  /\ req[r].op = "idle"
  /\ LET rec == [Idle EXCEPT !.op = "updateOrderStatus", !.user = u,
                             !.orderId = oid, !.newStatus = newStatus,
                             !.paymentStatusIn = payIn, !.trackingIn = trackIn,
                             !.pre = products]
     IN req' = [req EXCEPT ![r] =
          IF RoleOf(u) # "admin" THEN Done(rec, "Forbidden")
          ELSE IF oid \notin 1..Len(orders) THEN Done(rec, "OrderNotFound")
          ELSE IF newStatus # NoText
          THEN IF newStatus \notin OrderStatuses
               THEN Done([rec EXCEPT !.doc = orders[oid],
                                     !.was = orders[oid].orderStatus],
                         "InvalidStatus")
               ELSE [rec EXCEPT
                       !.doc = updateStatus(orders[oid], newStatus, trackIn),
                       !.was = orders[oid].orderStatus,
                       !.dirty = modifiedPaths(orders[oid],
                                   updateStatus(orders[oid], newStatus, trackIn)),
                       !.pc = "us_save"]
          ELSE AfterStatus([rec EXCEPT !.doc = orders[oid],
                                       !.was = orders[oid].orderStatus])]
  /\ roundTrip' = NoRoundTrip
  /\ UNCHANGED <<products, orders, cart, wishlist, initStock>>

\* updateStatus: this.save()
UpdateOrderStatusSave(r) ==
  /\ req[r].op = "updateOrderStatus" /\ req[r].pc = "us_save"
  /\ LET rec == req[r]
     IN IF preSave(rec.doc) # "ok"
        THEN /\ req' = [req EXCEPT ![r] = Done(rec, "AmountMismatch")]
             /\ UNCHANGED orders
        ELSE /\ orders' = [orders EXCEPT ![rec.orderId] =
                             writePaths(@, rec.doc, rec.dirty)]
             /\ req' = [req EXCEPT ![r] = AfterStatus([rec EXCEPT !.dirty = {}])]
  /\ UNCHANGED <<products, cart, wishlist, initStock, roundTrip>>

\* order.paymentStatus = paymentStatus; order.save()
UpdateOrderStatusPaySave(r) ==
  /\ req[r].op = "updateOrderStatus" /\ req[r].pc = "us_pay_save"
  /\ LET rec == req[r]
     IN IF preSave(rec.doc) # "ok"
        THEN /\ req' = [req EXCEPT ![r] = Done(rec, "ServerError")]
             /\ UNCHANGED orders
        ELSE /\ orders' = [orders EXCEPT ![rec.orderId] =
                             writePaths(@, rec.doc, rec.dirty)]
             /\ req' = [req EXCEPT ![r] = Done(rec, "Updated")]
  /\ UNCHANGED <<products, cart, wishlist, initStock, roundTrip>>

\* the response has been sent; the slot serves the next request
Finish(r) ==
  /\ req[r].pc = "done"
  /\ req' = [req EXCEPT ![r] = Idle]
  /\ UNCHANGED <<products, orders, cart, wishlist, initStock, roundTrip>>

\* ------------------------------------------------------------------- cart
\* the position of the first line with this (product, size, color), 0 if
\* none (Array.prototype.findIndex)
CartIndex(lines, key) ==
  LET Match(i) == <<lines[i].product, lines[i].size, lines[i].color>> = key
      n == Len(lines)
  IN IF \E i \in 1..n : Match(i)
     THEN CHOOSE i \in 1..n : Match(i) /\ \A j \in 1..(i - 1) : ~Match(j)
     ELSE 0

userAddToCart_AlwaysPush(lines, key, price, quantity) ==
  Append(lines, [product |-> key[1], size |-> key[2], color |-> key[3],
                 quantity |-> quantity, priceAtTime |-> price])

\* userSchema.methods.addToCart: the cart it saves
userAddToCart(lines, key, price, quantity) ==
  IF CartIndex(lines, key) > 0
  THEN [lines EXCEPT ![CartIndex(lines, key)].quantity = @ + quantity,
                     ![CartIndex(lines, key)].priceAtTime = price]
  ELSE Append(lines, [product |-> key[1], size |-> key[2], color |-> key[3],
                      quantity |-> quantity, priceAtTime |-> price])

userRemoveFromCart_WholeProduct(lines, key) ==
  SelectSeq(lines, LAMBDA l : l.product # key[1])

\* userSchema.methods.removeFromCart: the cart it saves
userRemoveFromCart(lines, key) ==
  SelectSeq(lines, LAMBDA l : <<l.product, l.size, l.color>> # key)

\* userSchema.methods.removeFromWishlist: the wishlist it saves
userRemoveFromWishlist(lines, key) ==
  SelectSeq(lines, LAMBDA l : <<l.product, l.size, l.color>> # key)

CartRequest(name, u, key, price, quantity) ==
  [Idle EXCEPT !.op = name, !.user = u, !.key = key, !.priceIn = price,
               !.quantityIn = quantity, !.pre = products, !.preCart = cart[u]]

addToCart_NoPriceCheck(r, u, key, price, quantity) ==
  /\ req[r].op = "idle"
  /\ LET rec == CartRequest("addToCart", u, key, price, quantity)
         outcome ==
           IF key[1] = NoText \/ key[2] = NoText \/ key[3] = NoText
              \/ price = 0 \/ quantity = 0
           THEN "ValidationError"
           ELSE IF quantity <= 0 THEN "ValidationError"
           ELSE IF quantity > MaxCartQuantity THEN "ValidationError"
           ELSE IF key[1] \notin DOMAIN products THEN "ProductNotFound"
           ELSE IF ~isInStock(products[key[1]], key[2], key[3], quantity)
           THEN "InsufficientStock"
           ELSE "Added"
     IN /\ req' = [req EXCEPT ![r] = Done(rec, outcome)]
        /\ cart' = IF outcome = "Added"
                   THEN [cart EXCEPT ![u] = userAddToCart(@, key, price, quantity)]
                   ELSE cart
  /\ UNCHANGED <<products, orders, wishlist, initStock, roundTrip>>

\* cart controller, addToCart
addToCart(r, u, key, price, quantity) ==
  /\ req[r].op = "idle"
  /\ LET rec == CartRequest("addToCart", u, key, price, quantity)
         outcome ==
           IF key[1] = NoText \/ key[2] = NoText \/ key[3] = NoText
              \/ price = 0 \/ quantity = 0
           THEN "ValidationError"
           ELSE IF quantity <= 0 THEN "ValidationError"
           ELSE IF quantity > MaxCartQuantity THEN "ValidationError"
           ELSE IF key[1] \notin DOMAIN products THEN "ProductNotFound"
           ELSE IF Abs(price - getFinalPrice(products[key[1]], key[2], key[3]))
                   > Epsilon
           THEN "PriceMismatch"
           ELSE IF ~isInStock(products[key[1]], key[2], key[3], quantity)
           THEN "InsufficientStock"
           ELSE "Added"
     IN /\ req' = [req EXCEPT ![r] = Done(rec, outcome)]
        /\ cart' = IF outcome = "Added"
                   THEN [cart EXCEPT ![u] = userAddToCart(@, key, price, quantity)]
                   ELSE cart
  /\ UNCHANGED <<products, orders, wishlist, initStock, roundTrip>>

\* cart controller, removeFromCart
removeFromCart(r, u, key) ==
  /\ req[r].op = "idle"
  /\ LET rec == CartRequest("removeFromCart", u, key, 0, 0)
         outcome ==
           IF key[1] = NoText \/ key[2] = NoText \/ key[3] = NoText
           THEN "ValidationError"
           ELSE IF cart[u] = <<>> THEN "CartEmpty"
           ELSE IF CartIndex(cart[u], key) = 0 THEN "ItemNotInCart"
           ELSE "Removed"
     IN /\ req' = [req EXCEPT ![r] = Done(rec, outcome)]
        /\ cart' = IF outcome = "Removed"
                   THEN [cart EXCEPT ![u] = userRemoveFromCart(@, key)]
                   ELSE cart
  /\ UNCHANGED <<products, orders, wishlist, initStock, roundTrip>>

\* cart controller, clearCart
clearCart(r, u) ==
  /\ req[r].op = "idle"
  /\ req' = [req EXCEPT ![r] =
       Done(CartRequest("clearCart", u, <<NoText, NoText, NoText>>, 0, 0),
            "Cleared")]
  /\ cart' = [cart EXCEPT ![u] = <<>>]
  /\ UNCHANGED <<products, orders, wishlist, initStock, roundTrip>>

\* cart controller, decrementCartItem
decrementCartItem(r, u, key) ==
  /\ req[r].op = "idle"
  /\ LET rec == CartRequest("decrementCartItem", u, key, 0, 0)
         i == CartIndex(cart[u], key)
         outcome ==
           IF key[1] = NoText \/ key[2] = NoText \/ key[3] = NoText
           THEN "ValidationError"
           ELSE IF cart[u] = <<>> THEN "CartEmpty"
           ELSE IF i = 0 THEN "ItemNotInCart"
           ELSE IF cart[u][i].quantity <= 1 THEN "MinQuantity"
           ELSE "Decremented"
     IN /\ req' = [req EXCEPT ![r] = Done(rec, outcome)]
        /\ cart' = IF outcome = "Decremented"
                   THEN [cart EXCEPT ![u][i].quantity = @ - 1]
                   ELSE cart
  /\ UNCHANGED <<products, orders, wishlist, initStock, roundTrip>>

\* cart controller, incrementCartItem: the stock it compares with is the
\* scalar stock of the product, and only when that is not 0
incrementCartItem(r, u, key) ==
  /\ req[r].op = "idle"
  /\ LET rec == CartRequest("incrementCartItem", u, key, 0, 0)
         i == CartIndex(cart[u], key)
         outcome ==
           IF key[1] = NoText \/ key[2] = NoText \/ key[3] = NoText
           THEN "ValidationError"
           ELSE IF cart[u] = <<>> THEN "CartEmpty"
           ELSE IF i = 0 THEN "ItemNotInCart"
           ELSE IF cart[u][i].quantity >= MaxCartQuantity THEN "MaxQuantity"
           ELSE IF /\ key[1] \in DOMAIN products
                   /\ products[key[1]].stock # 0
                   /\ cart[u][i].quantity >= products[key[1]].stock
           THEN "InsufficientStock"
           ELSE "Incremented"
     IN /\ req' = [req EXCEPT ![r] = Done(rec, outcome)]
        /\ cart' = IF outcome = "Incremented"
                   THEN [cart EXCEPT ![u][i].quantity = @ + 1]
                   ELSE cart
  /\ UNCHANGED <<products, orders, wishlist, initStock, roundTrip>>

\* wishlist controller, moveToCart: the line goes to the cart at the
\* current price and leaves the wishlist
moveToCart(r, u, key, quantity) ==
  /\ req[r].op = "idle"
  /\ LET rec == CartRequest("moveToCart", u, key, 0, quantity)
         outcome ==
           IF key[1] = NoText \/ key[2] = NoText \/ key[3] = NoText
           THEN "ValidationError"
           ELSE IF quantity <= 0 \/ quantity > MaxCartQuantity
           THEN "ValidationError"
           ELSE IF CartIndex(wishlist[u], key) = 0 THEN "NotInWishlist"
           ELSE IF key[1] \notin DOMAIN products THEN "ProductNotFound"
           ELSE IF ~isInStock(products[key[1]], key[2], key[3], quantity)
           THEN "InsufficientStock"
           ELSE "Moved"
     IN /\ req' = [req EXCEPT ![r] = Done(rec, outcome)]
        /\ cart' = IF outcome = "Moved"
                   THEN [cart EXCEPT ![u] =
                           userAddToCart(@, key,
                             getFinalPrice(products[key[1]], key[2], key[3]),
                             quantity)]
                   ELSE cart
        /\ wishlist' = IF outcome = "Moved"
                       THEN [wishlist EXCEPT ![u] =
                               userRemoveFromWishlist(@, key)]
                       ELSE wishlist
  /\ UNCHANGED <<products, orders, initStock, roundTrip>>

KeyL == <<"p1", "L", "Red">>
KeyM == <<"p1", "M", "Red">>

\* the requests explored: a line is merged into while it holds no more than
\* MaxMergeInto
MayGrow(u, key) ==
  IF CartIndex(cart[u], key) = 0
  THEN TRUE
  ELSE cart[u][CartIndex(cart[u], key)].quantity <= MaxMergeInto

\* ---------------------------------------------------------------- inputs
Item(p, s, q) == [product |-> p, size |-> s, color |-> "Red", quantity |-> q]

\* items of the catalogue, an absent variant ("S") and an absent product
StockItems == {Item("p1", "L", q) : q \in 1..MaxQty} \cup {Item("p1", "M", 1)}
StrayItems == {Item("p1", "S", 1), Item("p2", "L", 1)}

ItemLists(items) ==
  {<<i>> : i \in items} \cup {<<i, j>> : i \in items, j \in items}

\* shipping charge, discount and the finalAmount field a client may add to
\* the body (27.00 is what one L shirt costs with 10.00 shipping and 5.00 off)
ChargesAndFinals ==
  {<<0, 0, NoAmount>>, <<1000, 500, NoAmount>>, <<1000, 500, 2700>>,
   <<1000, 500, 2600>>, <<0, 100000, NoAmount>>}

\* ---------------------------------------------------------------------------
\* SpecSeq: createOrder and cancelOrder requests served one at a time, no
\* administrator at work
SeqCreate ==
  \E items \in ItemLists(StockItems \cup StrayItems) :
    BeginCreateOrder("r1", "u1", items, 0, 0, NoAmount, TRUE, "CashOnDelivery")

SeqCancel ==
  \E u \in {"u1", "u2"}, oid \in 1..MaxOrders : BeginCancelOrder("r1", u, oid)

NextSeq ==
  \/ SeqCreate
  \/ SeqCancel
  \/ CreateOrderItem("r1")
  \/ CreateOrderPersist("r1")
  \/ CreateOrderDecFind("r1")
  \/ CreateOrderDecSave("r1")
  \/ CreateOrderClearCart("r1")
  \/ CancelOrderSave("r1")
  \/ CancelOrderFind("r1")
  \/ CancelOrderRestore("r1")
  \/ Finish("r1")

SpecSeq == Init /\ [][NextSeq]_vars

\* item lists createOrder refuses: no item, an item without quantity or
\* without size, an absent product, an absent variant, more than the stock
RejectedItemLists ==
  {<<>>, <<Item("p1", "L", 0)>>, <<Item("p1", NoText, 1)>>,
   <<Item("p1", "L", 1), Item("p2", "L", 1)>>,
   <<Item("p1", "M", 1), Item("p1", "S", 1)>>,
   <<Item("p1", "L", MaxStock + 1)>>}

\* ---------------------------------------------------------------------------
\* SpecAdmin: the life of one order, from its creation through every cancel
\* and status update sent by its owner, another user and the administrator,
\* served one at a time; the charges, the submitted amounts and the updates
\* are varied (order 2 never exists)
AdminCreate ==
  /\ orders = <<>>
  /\ \/ \E items \in {<<Item("p1", "L", 1)>>, <<Item("p1", "M", 1)>>,
                      <<Item("p1", "L", 1), Item("p1", "L", 1)>>,
                      <<Item("p1", "L", MaxQty), Item("p1", "M", 1)>>},
           c \in ChargesAndFinals :
          BeginCreateOrder("r1", "u1", items, c[1], c[2], c[3], TRUE,
                           "CashOnDelivery")
     \/ \E a \in BOOLEAN, m \in {"CashOnDelivery", "Bitcoin"} :
          /\ ~a \/ m = "Bitcoin"
          /\ BeginCreateOrder("r1", "u1", <<Item("p1", "L", 1)>>, 0, 0,
                              NoAmount, a, m)
     \/ \E items \in RejectedItemLists :
          BeginCreateOrder("r1", "u1", items, 0, 0, NoAmount, TRUE,
                           "CashOnDelivery")
     \/ \E c \in {<<0 - 100, 0>>, <<0, 0 - 100>>} :
          BeginCreateOrder("r1", "u1", <<Item("p1", "L", 1)>>, c[1], c[2],
                           NoAmount, TRUE, "CashOnDelivery")

\* (an order put back from Cancelled by the administrator can be cancelled
\* again and again: the guard keeps the stock it gives back bounded)
AdminCancel ==
  /\ \A k \in VariantKeys : Stock(k) <= MaxStock
  /\ \E u \in Users, oid \in {1, 2} : BeginCancelOrder("r1", u, oid)

AdminUpdate ==
  \E u \in {"u1", "a1"}, oid \in {1, 2},
     st \in OrderStatuses \cup {NoText, "Returned"},
     pay \in {NoText, "Paid", "Lost"},
     trk \in {NoText, " TRK1 "} :
    BeginUpdateOrderStatus("r1", u, oid, st, pay, trk)

NextAdmin ==
  \/ AdminCreate
  \/ AdminCancel
  \/ AdminUpdate
  \/ CreateOrderItem("r1")
  \/ CreateOrderPersist("r1")
  \/ CreateOrderDecFind("r1")
  \/ CreateOrderDecSave("r1")
  \/ CreateOrderClearCart("r1")
  \/ CancelOrderSave("r1")
  \/ CancelOrderFind("r1")
  \/ CancelOrderRestore("r1")
  \/ UpdateOrderStatusSave("r1")
  \/ UpdateOrderStatusPaySave("r1")
  \/ Finish("r1")

SpecAdmin == Init /\ [][NextAdmin]_vars

\* ---------------------------------------------------------------------------
\* Spec: createOrder and cancelOrder requests of several clients, interleaved
\* at their awaits
ConcCreate(r) ==
  \E q \in 1..MaxQty :
    BeginCreateOrder(r, "u1", <<Item("p1", "L", q)>>, 0, 0, NoAmount, TRUE,
                     "CashOnDelivery")

ConcCancel(r) ==
  \E oid \in 1..MaxOrders : BeginCancelOrder(r, "u1", oid)

Next ==
  \E r \in Reqs :
    \/ ConcCreate(r)
    \/ ConcCancel(r)
    \/ CreateOrderItem(r)
    \/ CreateOrderPersist(r)
    \/ CreateOrderDecFind(r)
    \/ CreateOrderDecSave(r)
    \/ CreateOrderClearCart(r)
    \/ CancelOrderSave(r)
    \/ CancelOrderFind(r)
    \/ CancelOrderRestore(r)
    \/ Finish(r)

Spec == Init /\ [][Next]_vars

\* ---------------------------------------------------------------------------
\* SpecCatalog: createOrder and cancelOrder requests of one client, while the
\* administrator deletes the product or replaces its variants between the
\* awaits of the request
\* the validators of the variants schema, run by runValidators: true
variantsValid(variants) ==
  \A i \in 1..Len(variants) :
    variants[i].quantity >= 0 /\ variants[i].size # NoText

\* the variants field is not in the body
NoVariants == <<>>

\* Product.findByIdAndUpdate(id, updates, {runValidators: true}) with the
\* name, price and variants the body carries: one atomic write (the
\* findById before it only answers 404 for an absent id)
updateProduct(id, name, price, variants) ==
  /\ id \in DOMAIN products
  /\ products' =
       IF variantsValid(variants) /\ price >= 0
       THEN [products EXCEPT
               ![id].name = IF name # NoText THEN name ELSE @,
               ![id].price = IF price # 0 THEN price ELSE @,
               ![id].variants = IF variants # NoVariants THEN variants ELSE @]
       ELSE products
  /\ UNCHANGED <<orders, cart, wishlist, req, initStock, roundTrip>>

deleteProduct_WithItsOrders(id) ==
  /\ id \in DOMAIN products
  /\ products' = [p \in DOMAIN products \ {id} |-> products[p]]
  /\ orders' = SelectSeq(orders, LAMBDA o :
                 \A i \in 1..Len(o.orderItems) : o.orderItems[i].product # id)
  /\ UNCHANGED <<cart, wishlist, req, initStock, roundTrip>>

\* Product.findByIdAndDelete(id)
deleteProduct(id) ==
  /\ id \in DOMAIN products
  /\ products' = [p \in DOMAIN products \ {id} |-> products[p]]
  /\ UNCHANGED <<orders, cart, wishlist, req, initStock, roundTrip>>

\* the variant lists the administrator sends: size L is replaced by size S
\* with a fresh stock, or a negative quantity is sent
CatalogVariants ==
  {<<[size |-> "S", color |-> "Red", quantity |-> q, priceModifier |-> 200],
     [size |-> "M", color |-> "Red", quantity |-> 1, priceModifier |-> 0]>> :
     q \in {0 - 1, MaxStock}}

CatCreate ==
  \E items \in {<<Item("p1", "L", 1)>>, <<Item("p1", "M", 1)>>,
                 <<Item("p1", "M", 1), Item("p1", "L", 1)>>,
                 <<Item("p1", "L", 1), Item("p1", "M", 1)>>} :
    BeginCreateOrder("r1", "u1", items, 0, 0, NoAmount, TRUE, "CashOnDelivery")

CatCancel ==
  \E oid \in 1..MaxOrders : BeginCancelOrder("r1", "u1", oid)

CatUpdate == \E vs \in CatalogVariants : updateProduct("p1", NoText, 0, vs)

CatDelete == deleteProduct("p1")

NextCatalog ==
  \/ CatCreate
  \/ CatCancel
  \/ CatUpdate
  \/ CatDelete
  \/ CreateOrderItem("r1")
  \/ CreateOrderPersist("r1")
  \/ CreateOrderDecFind("r1")
  \/ CreateOrderDecSave("r1")
  \/ CreateOrderClearCart("r1")
  \/ CancelOrderSave("r1")
  \/ CancelOrderFind("r1")
  \/ CancelOrderRestore("r1")
  \/ Finish("r1")

SpecCatalog == Init /\ [][NextCatalog]_vars

\* ---------------------------------------------------------------------------
\* SpecLedger: every operation that runs while an order exists, served one at
\* a time: the owner's cancel, the administrator's status and payment update,
\* a rename and a price change of the product, its deletion, the cart
LedgerCreate ==
  \E items \in {<<Item("p1", "L", 1)>>,
                 <<Item("p1", "L", 1), Item("p1", "M", 1)>>} :
    BeginCreateOrder("r1", "u1", items, 0, 0, NoAmount, TRUE, "CashOnDelivery")

LedgerCancel == \E oid \in 1..MaxOrders : BeginCancelOrder("r1", "u1", oid)

LedgerStatus ==
  \E st \in {"Shipped", "Cancelled"}, pay \in {NoText, "Paid"} :
    BeginUpdateOrderStatus("r1", "a1", 1, st, pay, NoText)

LedgerUpdate == updateProduct("p1", "Tee", 2500, NoVariants)

LedgerDelete == deleteProduct("p1")

LedgerCart ==
  \/ MayGrow("u1", KeyM) /\ addToCart("r1", "u1", KeyM, 2000, 1)
  \/ clearCart("r1", "u1")

NextLedger ==
  \/ LedgerCreate
  \/ LedgerCancel
  \/ LedgerStatus
  \/ LedgerUpdate
  \/ LedgerDelete
  \/ LedgerCart
  \/ CreateOrderItem("r1")
  \/ CreateOrderPersist("r1")
  \/ CreateOrderDecFind("r1")
  \/ CreateOrderDecSave("r1")
  \/ CreateOrderClearCart("r1")
  \/ CancelOrderSave("r1")
  \/ CancelOrderFind("r1")
  \/ CancelOrderRestore("r1")
  \/ UpdateOrderStatusSave("r1")
  \/ UpdateOrderStatusPaySave("r1")
  \/ Finish("r1")

SpecLedger == Init /\ [][NextLedger]_vars

\* ---------------------------------------------------------------------------
\* SpecCart: the cart and wishlist requests of two users and the createOrder
\* of one of them, served one at a time; the L variant is stocked up to the
\* largest quantity the cart controller accepts
\* the two variants, an absent variant, an absent product, a missing size
CartKeys == {KeyL, KeyM, <<"p1", "S", "Red">>, <<"p2", "L", "Red">>,
             <<"p1", NoText, "Red">>}

\* addToCart bodies, as (key, price, quantity): L at its price and within
\* the tolerance, for quantities in and around the accepted range; L at a
\* wrong price; M for its stock and for more; the keys that do not exist
CartAdds ==
  {<<KeyL, p, q>> : p \in {2200, 2201},
                    q \in {1, 2, 3, 99, MaxCartQuantity}}
  \cup {<<KeyL, 2200, 0>>, <<KeyL, 2200, MaxCartQuantity + 1>>,
        <<KeyL, 2000, 1>>, <<KeyM, 2000, 1>>, <<KeyM, 2000, 2>>}
  \cup {<<k, 2200, 1>> : k \in CartKeys \ {KeyL, KeyM}}

InitCart ==
  /\ \E s \in {0, MaxStock} :
       products = [InitProducts(MaxCartQuantity, 1) EXCEPT !["p1"].stock = s]
  /\ orders = <<>>
  /\ cart = [u \in Users |-> IF u = "u2" THEN <<CartLine>> ELSE <<>>]
  /\ wishlist = [u \in Users |-> IF u = "u1" THEN <<WishLine>> ELSE <<>>]
  /\ req = [r \in Reqs |-> Idle]
  /\ initStock = [k \in {KeyL, KeyM} |-> StockIn(products, k)]
  /\ roundTrip = NoRoundTrip

CartAdd ==
  \E a \in CartAdds :
    MayGrow("u1", a[1]) /\ addToCart("r1", "u1", a[1], a[2], a[3])

CartRemove == \E key \in CartKeys : removeFromCart("r1", "u1", key)

CartClear == clearCart("r1", "u1")

CartDecrement == \E key \in CartKeys : decrementCartItem("r1", "u1", key)

CartIncrement ==
  \E key \in {KeyL, KeyM, <<"p1", "S", "Red">>} :
    /\ key = KeyM => MayGrow("u1", key)
    /\ incrementCartItem("r1", "u1", key)

CartMove ==
  \E key \in {KeyL, KeyM}, q \in {0, 1, MaxCartQuantity} :
    MayGrow("u1", key) /\ moveToCart("r1", "u1", key, q)

CartCreate ==
  /\ orders = <<>>
  /\ BeginCreateOrder("r1", "u1", <<Item("p1", "L", 1)>>, 0, 0, NoAmount,
                      TRUE, "CashOnDelivery")

NextCart ==
  \/ CartAdd
  \/ CartRemove
  \/ CartClear
  \/ CartDecrement
  \/ CartIncrement
  \/ CartMove
  \/ CartCreate
  \/ CreateOrderItem("r1")
  \/ CreateOrderPersist("r1")
  \/ CreateOrderDecFind("r1")
  \/ CreateOrderDecSave("r1")
  \/ CreateOrderClearCart("r1")
  \/ Finish("r1")

SpecCart == InitCart /\ [][NextCart]_vars

\* ---------------------------------------------------------------------------
\* SpecPay: one order and the administrator's updates of its status and of
\* its payment status, with every payment status sent
PayCreate ==
  /\ orders = <<>>
  /\ BeginCreateOrder("r1", "u1", <<Item("p1", "L", 1)>>, 0, 0, NoAmount,
                      TRUE, "CashOnDelivery")

PayUpdate ==
  \E u \in {"u1", "a1"},
     st \in OrderStatuses \cup {NoText},
     pay \in {NoText, "Pending", "Paid", "Failed", "Refunded", "Lost"},
     trk \in {NoText, " TRK1 "} :
    BeginUpdateOrderStatus("r1", u, 1, st, pay, trk)

NextPay ==
  \/ PayCreate
  \/ PayUpdate
  \/ CreateOrderItem("r1")
  \/ CreateOrderPersist("r1")
  \/ CreateOrderDecFind("r1")
  \/ CreateOrderDecSave("r1")
  \/ CreateOrderClearCart("r1")
  \/ UpdateOrderStatusSave("r1")
  \/ UpdateOrderStatusPaySave("r1")
  \/ Finish("r1")

SpecPay == Init /\ [][NextPay]_vars

\* ===========================================================================
\* Properties
\* ===========================================================================
\* the quantity of variant k ordered by the lines of an item list
Ordered(items, k) ==
  SumSeq([i \in 1..Len(items) |->
            IF <<items[i].product, items[i].size, items[i].color>> = k
            THEN items[i].quantity ELSE 0])

\* the quantity of variant k held by the orders that are not cancelled
Held(k) ==
  SumSeq([o \in 1..Len(orders) |->
            IF orders[o].orderStatus # "Cancelled"
            THEN Ordered(orders[o].orderItems, k) ELSE 0])

CreatedBy(r) ==
  req[r].op = "createOrder" /\ req[r].pc = "done" /\ req[r].result = "Created"

WholeStock(r) ==
  /\ Len(req[r].orderItems) = 1
  /\ LET item == req[r].orderItems[1]
         k == <<item.product, item.size, item.color>>
     IN /\ k \in DOMAIN initStock
        /\ item.quantity = initStock[k]
        /\ item.quantity = StockIn(req[r].pre, k)

\* C1: of two createOrder requests in progress together, each for the whole
\* stock of the same variant as both found it, at most one creates an order
C1_AtMostOneSucceeds ==
  \A a \in Reqs, b \in Reqs :
    (a # b /\ WholeStock(a) /\ WholeStock(b)
       /\ req[a].orderItems = req[b].orderItems)
    => ~(CreatedBy(a) /\ CreatedBy(b))

\* C2: served one at a time, createOrder and cancelOrder never leave the
\* orders that are not cancelled holding more of a variant than its initial
\* stock
C2_NoOversell ==
  \A k \in DOMAIN initStock : Held(k) <= initStock[k]

\* C3: an order that is Delivered or Cancelled keeps that status
C3_TerminalStable ==
  [][\A o \in 1..Len(orders) :
       orders[o].orderStatus \in {"Delivered", "Cancelled"}
       => orders'[o].orderStatus = orders[o].orderStatus]_vars

StatusEdges ==
  {<<"Processing", "Confirmed">>, <<"Confirmed", "Shipped">>,
   <<"Shipped", "Delivered">>, <<"Processing", "Cancelled">>,
   <<"Confirmed", "Cancelled">>}

\* C4: a new order starts in Processing and every change of an order's
\* status follows an edge of the state machine
C4_StatusFollowsEdges ==
  [][/\ \A o \in 1..Len(orders) :
          orders'[o].orderStatus # orders[o].orderStatus
          => <<orders[o].orderStatus, orders'[o].orderStatus>> \in StatusEdges
     /\ \A o \in (Len(orders) + 1)..Len(orders') :
          orders'[o].orderStatus = "Processing"]_vars

Cancelling(r) == req[r].op = "cancelOrder" /\ req[r].pc = "done"

\* C5: a cancel request that finds its order in Processing or Confirmed ends
\* with the order Cancelled and with every variant raised by exactly the
\* quantity the order's lines hold of it
C5_CancelRestores ==
  \A r \in Reqs :
    (Cancelling(r) /\ req[r].was \in {"Processing", "Confirmed"})
    => /\ req[r].result = "Cancelled"
       /\ orders[req[r].orderId].orderStatus = "Cancelled"
       /\ \A k \in VariantKeys :
            Stock(k) = StockIn(req[r].pre, k)
                       + Ordered(orders[req[r].orderId].orderItems, k)

C5_Witness ==
  \E r \in Reqs :
    /\ Cancelling(r) /\ req[r].was = "Confirmed"
    /\ req[r].result = "Cancelled"
    /\ Len(orders[req[r].orderId].orderItems) = 2
    /\ Stock(<<"p1", "L", "Red">>) > StockIn(req[r].pre, <<"p1", "L", "Red">>)

\* C6: a cancel request that finds its order Shipped, Delivered or Cancelled
\* ends at once with an invalid-transition error, and orders, products and
\* carts are as before
C6_CancelRefused ==
  [][\A r \in Reqs :
       (/\ req[r].op = "idle"
        /\ req'[r].op = "cancelOrder"
        /\ findOrder(req'[r].user, req'[r].orderId)
        /\ orders[req'[r].orderId].orderStatus
             \in {"Shipped", "Delivered", "Cancelled"})
       => /\ req'[r].pc = "done"
          /\ req'[r].result = "InvalidTransition"
          /\ UNCHANGED <<orders, products, cart>>]_vars

C6_Witness ==
  \E r \in Reqs :
    /\ Cancelling(r) /\ req[r].was = "Shipped"
    /\ req[r].result = "InvalidTransition"
    /\ orders[req[r].orderId].orderStatus = "Shipped"

\* C7: when a createOrder request served alone has succeeded, every variant
\* holds max(0, its quantity before the request - the quantity the request's
\* lines order of it); a variant no line names is unchanged
C7_StockAfterCreate ==
  \A r \in Reqs :
    CreatedBy(r)
    => \A k \in VariantKeys :
         Stock(k) = Max(0, StockIn(req[r].pre, k) - Ordered(req[r].orderItems, k))

C7_Witness ==
  \E r \in Reqs :
    /\ CreatedBy(r)
    /\ Ordered(req[r].orderItems, <<"p1", "L", "Red">>) = 1
    /\ StockIn(req[r].pre, <<"p1", "L", "Red">>) = MaxStock
    /\ Stock(<<"p1", "L", "Red">>) = MaxStock - 1
    /\ Stock(<<"p1", "M", "Red">>) = StockIn(req[r].pre, <<"p1", "M", "Red">>)

\* C8: every stored order has totalAmount equal to the sum of price times
\* quantity of its items and finalAmount equal to totalAmount +
\* shippingCharge - discount, within 0.01, and every item's price is the base
\* price of its product plus the price modifier of its variant
C8_AmountsConsistent ==
  \A o \in 1..Len(orders) :
    LET order == orders[o]
    IN /\ Abs(order.totalAmount
              - SumSeq([i \in 1..Len(order.orderItems) |->
                          order.orderItems[i].price
                          * order.orderItems[i].quantity])) <= Epsilon
       /\ Abs(order.finalAmount
              - (order.totalAmount + order.shippingCharge - order.discount))
            <= Epsilon
       /\ \A i \in 1..Len(order.orderItems) :
            LET it == order.orderItems[i]
                product == products[it.product]
                n == CHOOSE j \in 1..Len(product.variants) :
                       /\ product.variants[j].size = it.size
                       /\ product.variants[j].color = it.color
            IN it.price = product.price + product.variants[n].priceModifier

C8_Witness ==
  \E o \in 1..Len(orders) :
    /\ Len(orders[o].orderItems) = 2
    /\ orders[o].orderItems[1].price # orders[o].orderItems[2].price
    /\ orders[o].shippingCharge > 0
    /\ orders[o].orderStatus = "Delivered"
    /\ orders[o].paymentStatus = "Paid"

ComputedFinal(r) ==
  req[r].calculatedTotal + req[r].shippingCharge - req[r].discount

\* a createOrder request that has got through the item loop
AllItemsPassed(r) ==
  /\ req[r].op = "createOrder" /\ req[r].pc = "done"
  /\ Len(req[r].orderItems) > 0
  /\ Len(req[r].processed) = Len(req[r].orderItems)

C10_RoundTrip ==
  \A r \in Reqs :
    (/\ Cancelling(r) /\ req[r].result = "Cancelled"
     /\ roundTrip.order = req[r].orderId)
    => /\ orders[req[r].orderId].orderStatus = "Cancelled"
       /\ \A k \in VariantKeys : Stock(k) = StockIn(roundTrip.pre, k)

\* C11: a createOrder request that is rejected (validation, product not
\* found, insufficient stock or absent variant, final amount <= 0) has
\* created no order, and no step of a createOrder request that has created
\* no order changes the orders, a variant quantity or a cart
BusinessRejections ==
  {"ValidationError", "ProductNotFound", "InsufficientStock", "InvalidAmount"}

C11_RejectedWritesNothing ==
  [][\A r \in Reqs :
       (req'[r] # req[r] /\ req'[r].op = "createOrder")
       => /\ req'[r].result \in BusinessRejections => req'[r].orderId = 0
          /\ req'[r].orderId = 0 => UNCHANGED <<orders, products, cart>>]_vars

C11_Witness ==
  \E r \in Reqs :
    /\ req[r].op = "createOrder" /\ req[r].pc = "done"
    /\ req[r].result = "InvalidAmount"
    /\ Len(req[r].processed) = 2
    /\ orders = <<>> /\ products = req[r].pre /\ cart["u1"] # <<>>

\* C12: order creation is atomic: whenever a createOrder request has
\* persisted its order, every variant its lines name holds its quantity of
\* before the request less the quantity ordered, and the user's cart is
\* empty (a request that has persisted no order has changed nothing: C11)
DecrementsApplied(r) ==
  \A k \in DOMAIN initStock :
    StockIn(products, k)
      = Max(0, StockIn(req[r].pre, k) - Ordered(req[r].orderItems, k))

C12_CreateAtomic ==
  \A r \in Reqs :
    (req[r].op = "createOrder" /\ req[r].orderId # 0)
    => DecrementsApplied(r) /\ cart[req[r].user] = <<>>

\* the state a failed step leaves behind: the request has ended in an error,
\* its order is stored, no stock was taken and the cart is still full
C12_LeftBehind ==
  \E r \in Reqs :
    /\ req[r].op = "createOrder" /\ req[r].pc = "done"
    /\ req[r].result \in {"ServerError", "VariantNotFound"}
    /\ req[r].orderId \in 1..Len(orders)
    /\ orders[req[r].orderId].orderStatus = "Processing"
    /\ cart[req[r].user] # <<>>

\* C13: in createOrder a variant quantity is written only once the order is
\* stored, and the cart is written only after the stock loop has gone through
\* every item; the step that stores the order writes neither, and a request
\* that stops at the first turn of the stock loop leaves the order stored,
\* the stock as it was and the cart as it was
C13_PersistThenDecrementThenClear ==
  [][\A r \in Reqs :
       (req'[r] # req[r] /\ req[r].op = "createOrder")
       => /\ products' # products
               => /\ req[r].orderId \in 1..Len(orders)
                  /\ cart' = cart
          /\ cart' # cart
               => /\ req[r].pc = "co_clear"
                  /\ req[r].idx = Len(req[r].orderItems) + 1
          /\ orders' # orders
               => /\ products' = products /\ cart' = cart
                  /\ req'[r].pc = "co_dec_find" /\ req'[r].idx = 1
          /\ (req[r].pc = "co_dec_find" /\ req[r].idx = 1
                /\ req'[r].pc = "done")
               => /\ req[r].orderId \in 1..Len(orders')
                  /\ products' = products /\ cart' = cart]_vars

C13_Witness ==
  \E r \in Reqs :
    /\ req[r].op = "createOrder" /\ req[r].pc = "done"
    /\ req[r].result = "VariantNotFound" /\ req[r].idx = 1
    /\ req[r].orderId \in 1..Len(orders)
    /\ Len(orders[req[r].orderId].orderItems) = 2
    /\ cart[req[r].user] # <<>>

\* C18: every variant quantity is a natural number; a stock decrement by
\* more than the variant holds stores 0, and the request goes on to success
ItemKey(item) == <<item.product, item.size, item.color>>

C18_StockNeverNegative ==
  /\ \A k \in VariantKeys : Stock(k) \in Nat
  /\ \A r \in Reqs :
       /\ (/\ req[r].op = "createOrder" /\ req[r].pc = "co_dec_save"
           /\ Stock(ItemKey(req[r].orderItems[req[r].idx]))
                < req[r].orderItems[req[r].idx].quantity)
          => req[r].newQty = 0
       /\ (/\ req[r].op = "createOrder" /\ req[r].pc = "done"
           /\ req[r].orderId # 0)
          => req[r].result = "Created"

C18_Witness ==
  \E r \in Reqs :
    /\ CreatedBy(r)
    /\ Len(req[r].orderItems) = 2
    /\ ItemKey(req[r].orderItems[1]) = ItemKey(req[r].orderItems[2])
    /\ StockIn(req[r].pre, ItemKey(req[r].orderItems[1]))
         < req[r].orderItems[1].quantity + req[r].orderItems[2].quantity
    /\ StockIn(req[r].pre, ItemKey(req[r].orderItems[1]))
         > req[r].orderItems[1].quantity
    /\ Stock(ItemKey(req[r].orderItems[1])) = 0

\* C19: a cancel request for a stored order sent by a principal who is
\* neither its owner nor an administrator ends at once with order not found
\* and changes no order and no stock; sent by the owner or an administrator
\* it is refused exactly when the order is not in Processing or Confirmed
C19_CancelOwnership ==
  [][\A r \in Reqs :
       (/\ req[r].op = "idle" /\ req'[r].op = "cancelOrder"
        /\ req'[r].orderId \in 1..Len(orders))
       => LET u == req'[r].user
              order == orders[req'[r].orderId]
          IN IF u # order.user /\ u # "a1"
             THEN /\ req'[r].pc = "done"
                  /\ req'[r].result = "OrderNotFound"
                  /\ UNCHANGED <<orders, products, cart>>
             ELSE IF order.orderStatus \in {"Processing", "Confirmed"}
                  THEN req'[r].pc = "ca_save"
                  ELSE /\ req'[r].pc = "done"
                       /\ req'[r].result = "InvalidTransition"]_vars

C19_Witness ==
  \E r \in Reqs :
    /\ Cancelling(r) /\ req[r].user = "u2"
    /\ req[r].result = "OrderNotFound"
    /\ req[r].orderId \in 1..Len(orders)
    /\ orders[req[r].orderId].user = "u1"
    /\ orders[req[r].orderId].orderStatus = "Confirmed"
    /\ products = req[r].pre

\* C20: an update-status request from a principal who is not an
\* administrator, or with a status that is none of Processing, Confirmed,
\* Shipped, Delivered, Cancelled, ends at once with an error; the request
\* writes nothing, so the stored order keeps every field
C20_UpdateGuarded ==
  [][\A r \in Reqs :
       (/\ req[r].op = "idle" /\ req'[r].op = "updateOrderStatus"
        /\ req'[r].orderId \in 1..Len(orders)
        /\ \/ req'[r].user # "a1"
           \/ /\ req'[r].newStatus # NoText
              /\ req'[r].newStatus \notin {"Processing", "Confirmed",
                                            "Shipped", "Delivered", "Cancelled"})
       => /\ req'[r].pc = "done"
          /\ req'[r].result = IF req'[r].user # "a1"
                              THEN "Forbidden" ELSE "InvalidStatus"
          /\ UNCHANGED <<orders, products, cart>>]_vars

C20_Witness ==
  \E r \in Reqs :
    /\ req[r].op = "updateOrderStatus" /\ req[r].pc = "done"
    /\ req[r].user = "u1" /\ req[r].result = "Forbidden"
    /\ req[r].newStatus = "Delivered" /\ req[r].paymentStatusIn = "Paid"
    /\ req[r].orderId \in 1..Len(orders)
    /\ orders[req[r].orderId].orderStatus = "Processing"
    /\ orders[req[r].orderId].paymentStatus = "Pending"

\* C14: the step that ends a createOrder request in success empties the
\* cart of the ordering user, whatever it holds, and leaves every other
\* user's cart as it is; no other step of a createOrder request writes a cart
C14_CartEmptiedOnSuccess ==
  [][\A r \in Reqs :
       (req'[r] # req[r] /\ req'[r].op = "createOrder")
       => IF req'[r].pc = "done" /\ req'[r].result = "Created"
          THEN /\ cart'[req'[r].user] = <<>>
               /\ \A u \in Users \ {req'[r].user} : cart'[u] = cart[u]
          ELSE cart' = cart]_vars

C14_Witness ==
  \E r \in Reqs :
    /\ CreatedBy(r)
    /\ Len(req[r].preCart) = 2
    /\ \E i \in 1..2 :
         Ordered(req[r].orderItems,
                 <<req[r].preCart[i].product, req[r].preCart[i].size,
                   req[r].preCart[i].color>>) = 0
    /\ cart[req[r].user] = <<>>
    /\ cart["u2"] # <<>>

LineKey(l) == <<l.product, l.size, l.color>>

OneLinePerKey(lines) ==
  \A i \in 1..Len(lines), j \in 1..Len(lines) :
    LineKey(lines[i]) = LineKey(lines[j]) => i = j

\* an accepted add: the line of the key gains the quantity and takes the
\* price of the request, or a line is appended when the key has none
MergedOrAppended(before, after, key, price, quantity) ==
  IF \E i \in 1..Len(before) : LineKey(before[i]) = key
  THEN \E i \in 1..Len(before) :
         /\ LineKey(before[i]) = key
         /\ after = [before EXCEPT ![i].quantity = @ + quantity,
                                   ![i].priceAtTime = price]
  ELSE after = Append(before, [product |-> key[1], size |-> key[2],
                               color |-> key[3], quantity |-> quantity,
                               priceAtTime |-> price])

\* C15: every cart holds at most one line per (product, size, color); an
\* accepted addToCart adds the quantity to the line of its key and
\* overwrites its price, or appends one line when the key has no line
C15_OneLinePerKey ==
  /\ [](\A u \in Users : OneLinePerKey(cart[u]))
  /\ [][\A r \in Reqs :
         (/\ req[r].op = "idle" /\ req'[r].op = "addToCart"
          /\ req'[r].result = "Added")
         => /\ MergedOrAppended(cart[req'[r].user], cart'[req'[r].user],
                                req'[r].key, req'[r].priceIn,
                                req'[r].quantityIn)
            /\ \A u \in Users \ {req'[r].user} : cart'[u] = cart[u]]_vars

C15_Witness ==
  \E r \in Reqs :
    /\ req[r].op = "addToCart" /\ req[r].pc = "done"
    /\ req[r].result = "Added"
    /\ req[r].quantityIn = 3 /\ req[r].priceIn = 2201
    /\ req[r].preCart = <<[product |-> "p1", size |-> "L", color |-> "Red",
                           quantity |-> 2, priceAtTime |-> 2200]>>
    /\ cart[req[r].user] = <<[product |-> "p1", size |-> "L", color |-> "Red",
                              quantity |-> 5, priceAtTime |-> 2201]>>

\* C16: every cart line holds a quantity from 1 to 99, and an addToCart
\* request with a quantity outside 1..99 is not accepted
C16_CartQuantityInRange ==
  /\ \A u \in Users : \A i \in 1..Len(cart[u]) :
       cart[u][i].quantity >= 1 /\ cart[u][i].quantity <= 99
  /\ \A r \in Reqs :
       (req[r].op = "addToCart" /\ req[r].pc = "done"
        /\ (req[r].quantityIn < 1 \/ req[r].quantityIn > 99))
       => req[r].result # "Added"

\* the cart without its line number i
WithoutLine(lines, i) ==
  [j \in 1..(Len(lines) - 1) |-> IF j < i THEN lines[j] ELSE lines[j + 1]]

\* C17: decrementCartItem on a line holding 1 is refused and no cart
\* changes; an accepted removeFromCart takes exactly the line of its key out
\* of the user's cart and leaves the other lines, and the other carts, as
\* they are
C17_DecrementAtOneRemove ==
  [][\A r \in Reqs :
       /\ (/\ req[r].op = "idle" /\ req'[r].op = "decrementCartItem"
           /\ \E i \in 1..Len(cart[req'[r].user]) :
                /\ LineKey(cart[req'[r].user][i]) = req'[r].key
                /\ cart[req'[r].user][i].quantity = 1)
          => /\ req'[r].pc = "done" /\ req'[r].result = "MinQuantity"
             /\ cart' = cart
       /\ (/\ req[r].op = "idle" /\ req'[r].op = "removeFromCart"
           /\ \E i \in 1..Len(cart[req'[r].user]) :
                LineKey(cart[req'[r].user][i]) = req'[r].key)
          => /\ req'[r].pc = "done" /\ req'[r].result = "Removed"
             /\ \E i \in 1..Len(cart[req'[r].user]) :
                  /\ LineKey(cart[req'[r].user][i]) = req'[r].key
                  /\ cart'[req'[r].user] = WithoutLine(cart[req'[r].user], i)
             /\ \A u \in Users \ {req'[r].user} : cart'[u] = cart[u]]_vars

C17_Witness ==
  \E r \in Reqs :
    /\ req[r].op = "removeFromCart" /\ req[r].pc = "done"
    /\ req[r].result = "Removed" /\ req[r].key = <<"p1", "L", "Red">>
    /\ Len(req[r].preCart) = 2
    /\ req[r].preCart[1].size = "L" /\ req[r].preCart[1].quantity = 1
    /\ cart[req[r].user] = <<req[r].preCart[2]>>

\* C21: a turn of the restoration loop of cancelOrder that finds the
\* product or the variant of its item gone skips the item: it writes no
\* stock, the order is Cancelled, and the request goes on to the next item
\* or, after the last item, ends in success
C21_CancelSkipsMissing ==
  [][\A r \in Reqs :
       (/\ req[r].op = "cancelOrder" /\ req[r].pc = "ca_find"
        /\ req'[r] # req[r]
        /\ LET item == req[r].doc.orderItems[req[r].idx]
           IN \/ item.product \notin DOMAIN products
              \/ \A i \in 1..Len(products[item.product].variants) :
                   \/ products[item.product].variants[i].size # item.size
                   \/ products[item.product].variants[i].color # item.color)
       => /\ products' = products
          /\ orders'[req[r].orderId].orderStatus = "Cancelled"
          /\ IF req[r].idx = Len(req[r].doc.orderItems)
             THEN req'[r].pc = "done" /\ req'[r].result = "Cancelled"
             ELSE /\ req'[r].pc = "ca_find"
                  /\ req'[r].idx = req[r].idx + 1]_vars

C21_Witness ==
  \E r \in Reqs :
    /\ Cancelling(r) /\ req[r].result = "Cancelled"
    /\ orders[req[r].orderId].orderStatus = "Cancelled"
    /\ Len(orders[req[r].orderId].orderItems) = 2
    /\ "p1" \in DOMAIN products
    /\ Stock(<<"p1", "L", "Red">>) = 0
    /\ \A i \in 1..Len(products["p1"].variants) :
         products["p1"].variants[i].size # "L"
    /\ Stock(<<"p1", "M", "Red">>)
         = StockIn(req[r].pre, <<"p1", "M", "Red">>) + 1

\* C22: an order whose status is Delivered has isDelivered set and a
\* delivery date; and when an update-status request that carried a status
\* and a tracking number has succeeded, the order holds that tracking number
\* (without the blanks around it), whatever the status
C22_DeliveredAndTracking ==
  /\ \A o \in 1..Len(orders) :
       orders[o].orderStatus = "Delivered"
       => orders[o].isDelivered = TRUE /\ orders[o].deliveredAt # NoText
  /\ \A r \in Reqs :
       (/\ req[r].op = "updateOrderStatus" /\ req[r].pc = "done"
        /\ req[r].result = "Updated"
        /\ req[r].newStatus # NoText /\ req[r].trackingIn = " TRK1 ")
       => orders[req[r].orderId].trackingNumber = "TRK1"

C22_Witness ==
  \E r \in Reqs :
    /\ req[r].op = "updateOrderStatus" /\ req[r].pc = "done"
    /\ req[r].result = "Updated" /\ req[r].was = "Shipped"
    /\ req[r].newStatus = "Delivered" /\ req[r].trackingIn = " TRK1 "
    /\ orders[req[r].orderId].orderStatus = "Delivered"
    /\ orders[req[r].orderId].isDelivered = TRUE
    /\ orders[req[r].orderId].deliveredAt = "now"
    /\ orders[req[r].orderId].trackingNumber = "TRK1"

\* C23: the payment status of every order is one of Pending, Paid, Failed,
\* Refunded; an administrator's update that carries one of them and no
\* order status is accepted whatever the order's status and payment status
\* are, and its save changes the payment status to the one sent and
\* nothing else of the order
C23_PaymentIndependent ==
  /\ [](\A o \in 1..Len(orders) :
         orders[o].paymentStatus \in {"Pending", "Paid", "Failed", "Refunded"})
  /\ [][\A r \in Reqs :
         /\ (/\ req[r].op = "idle" /\ req'[r].op = "updateOrderStatus"
             /\ req'[r].user = "a1" /\ req'[r].orderId \in 1..Len(orders)
             /\ req'[r].newStatus = NoText
             /\ req'[r].paymentStatusIn
                  \in {"Pending", "Paid", "Failed", "Refunded"})
            => req'[r].pc = "us_pay_save" /\ orders' = orders
         /\ (/\ req[r].op = "updateOrderStatus" /\ req[r].pc = "us_pay_save"
             /\ req[r].newStatus = NoText /\ req'[r] # req[r])
            => /\ req'[r].pc = "done" /\ req'[r].result = "Updated"
               /\ orders' = [orders EXCEPT ![req[r].orderId].paymentStatus =
                                              req[r].paymentStatusIn]]_vars

C23_Witness ==
  \E r \in Reqs :
    /\ req[r].op = "updateOrderStatus" /\ req[r].pc = "done"
    /\ req[r].result = "Updated" /\ req[r].newStatus = NoText
    /\ req[r].paymentStatusIn = "Pending"
    /\ req[r].dirty = {"paymentStatus"}
    /\ orders[req[r].orderId].paymentStatus = "Pending"
    /\ orders[req[r].orderId].orderStatus = "Cancelled"
    /\ orders[req[r].orderId].trackingNumber = "TRK1"

\* ---------------------------------------------------------------------------
\* the part of an order that is written once, when the order is created
Written(o) ==
  [orderItems |-> o.orderItems, totalAmount |-> o.totalAmount,
   finalAmount |-> o.finalAmount, shippingCharge |-> o.shippingCharge,
   discount |-> o.discount]

\* C24: after an order is created no step changes its items, its total, its
\* final amount, its shipping charge or its discount, and no step removes an
\* order: every step keeps all the orders it found, with those fields as they
\* were, whether it cancels, updates the status or the payment, renames,
\* reprices or deletes the product, or changes a cart
C24_OrdersImmutable ==
  [][/\ Len(orders') >= Len(orders)
     /\ \A o \in 1..Len(orders) : Written(orders'[o]) = Written(orders[o])]_vars

\* the product was renamed and repriced and then deleted after the order was
\* cancelled and marked paid; the order still shows the name and the price
\* of the day it was placed
C24_Witness ==
  /\ Len(orders) >= 2
  /\ "p1" \notin DOMAIN products
  /\ orders[1].orderStatus = "Cancelled"
  /\ orders[1].paymentStatus = "Paid"
  /\ orders[1].orderItems[1].productName = "Shirt"
  /\ orders[1].orderItems[1].price = 2200
  /\ orders[2].orderItems[1].productName = "Tee"
  /\ orders[2].orderItems[1].price = 2700
  /\ cart["u1"] # <<>>

\* C25: an incrementCartItem that would take the line past 99 or past the
\* quantity of the line's variant is refused and leaves the cart as it was;
\* any other increment of a line of the cart raises that line by exactly 1
C25_IncrementGuarded ==
  \A r \in Reqs :
    (/\ req[r].op = "incrementCartItem" /\ req[r].pc = "done"
     /\ CartIndex(req[r].preCart, req[r].key) # 0)
    => LET i == CartIndex(req[r].preCart, req[r].key)
           q == req[r].preCart[i].quantity
       IN IF q + 1 > 99 \/ q + 1 > StockIn(products, req[r].key)
          THEN /\ req[r].result # "Incremented"
               /\ cart[req[r].user] = req[r].preCart
          ELSE cart[req[r].user] =
                 [req[r].preCart EXCEPT ![i].quantity = q + 1]

\* the request names a product, a size and a color, a price and a quantity
\* the cart controller accepts, and the product exists
WellFormedAdd(rec) ==
  /\ rec.key[1] # NoText /\ rec.key[2] # NoText /\ rec.key[3] # NoText
  /\ rec.priceIn # 0
  /\ rec.quantityIn >= 1 /\ rec.quantityIn <= MaxCartQuantity
  /\ rec.key[1] \in DOMAIN rec.pre

\* the final price of the line's variant when the request was served
PriceThen(rec) == getFinalPrice(rec.pre[rec.key[1]], rec.key[2], rec.key[3])

\* C26: an addToCart whose price is more than 0.01 away from the final price
\* (base price plus the variant's modifier, the base price when the variant
\* is absent) is refused with the price mismatch and leaves the cart as it
\* was; the line of every accepted addToCart carries a priceAtTime within 0.01
\* of the final price at that time
C26_PriceValidated ==
  \A r \in Reqs :
    (req[r].op = "addToCart" /\ req[r].pc = "done" /\ WellFormedAdd(req[r]))
    => /\ Abs(req[r].priceIn - PriceThen(req[r])) > Epsilon
          => /\ req[r].result = "PriceMismatch"
             /\ cart[req[r].user] = req[r].preCart
       /\ req[r].result = "Added"
          => /\ CartIndex(cart[req[r].user], req[r].key) # 0
             /\ Abs(cart[req[r].user][CartIndex(cart[req[r].user],
                                                req[r].key)].priceAtTime
                    - PriceThen(req[r])) <= Epsilon

\* a line was added one hundredth above the final price; the next request
\* offers the L price for the absent variant S and is refused
C26_Witness ==
  \E r \in Reqs :
    /\ req[r].op = "addToCart" /\ req[r].pc = "done"
    /\ req[r].key = <<"p1", "S", "Red">> /\ req[r].priceIn = 2200
    /\ req[r].result = "PriceMismatch"
    /\ Len(req[r].preCart) = 1
    /\ req[r].preCart[1].priceAtTime = 2201
    /\ cart[req[r].user] = req[r].preCart

\* the cancel requests that have gone through the restoration loop for order
\* number oid
Restorers(oid) ==
  {r \in Reqs : /\ req[r].op = "cancelOrder" /\ req[r].orderId = oid
                /\ req[r].pc = "done" /\ req[r].result = "Cancelled"}

\* C27: restoration happens at most once per order: whatever the sequence or
\* the interleaving of the cancel requests on one order, the quantity they
\* have added back to a variant on its behalf is at most the quantity the
\* order holds of that variant
C27_RestoredAtMostOnce ==
  \A oid \in 1..Len(orders) : \A k \in VariantKeys :
    Cardinality(Restorers(oid)) * Ordered(orders[oid].orderItems, k)
      <= Ordered(orders[oid].orderItems, k)

\* no request is in progress
Quiescent == \A r \in Reqs : req[r].op = "idle"

\* C28: in every state with no request in progress the stock of an order's
\* items has been given back if and only if the order is Cancelled, whichever
\* request cancelled it: a variant holds its initial quantity less what the
\* orders that are not Cancelled hold of it
C28_RestoredIffCancelled ==
  Quiescent => \A k \in DOMAIN initStock : Stock(k) = initStock[k] - Held(k)

\* the request has ended after changing the stock of variant k: a createOrder
\* that created its order of one line of k, or a cancelOrder that cancelled
\* an order of one line of k
StockChanger(r, k) ==
  \/ /\ CreatedBy(r)
     /\ Len(req[r].orderItems) = 1 /\ ItemKey(req[r].orderItems[1]) = k
  \/ /\ Cancelling(r) /\ req[r].result = "Cancelled"
     /\ Len(req[r].doc.orderItems) = 1
     /\ ItemKey(req[r].doc.orderItems[1]) = k

\* the quantity q of the variant after the change of request r alone
ChangeBy(r, q) ==
  IF req[r].op = "createOrder"
  THEN updateVariantStock(q, req[r].orderItems[1].quantity)
  ELSE restoredQuantity(q, req[r].doc.orderItems[1].quantity)

\* C29: no stock update is lost: when two requests that change the stock of
\* one variant (two creations, or a creation and a cancellation) were in
\* progress together, both having found the variant at the same quantity,
\* the variant ends at the quantity obtained by applying the two changes one
\* after the other
C29_NoLostUpdate ==
  \A r \in Reqs : \A s \in Reqs \ {r} : \A k \in VariantKeys :
    (/\ StockChanger(r, k) /\ StockChanger(s, k)
     /\ StockIn(req[r].pre, k) = StockIn(req[s].pre, k))
    => Stock(k) = ChangeBy(s, ChangeBy(r, StockIn(req[r].pre, k)))

\* C30: right after an accepted addToCart or moveToCart the line it wrote
\* holds, merge included, no more than the quantity of its variant as the
\* request read it; an addToCart for a variant that does not exist or holds
\* less than the quantity asked for is refused and leaves the cart as it was
C30_LineWithinStock ==
  \A r \in Reqs :
    (req[r].op \in {"addToCart", "moveToCart"} /\ req[r].pc = "done")
    => /\ req[r].result \in {"Added", "Moved"}
          => /\ CartIndex(cart[req[r].user], req[r].key) # 0
             /\ cart[req[r].user][CartIndex(cart[req[r].user],
                                            req[r].key)].quantity
                  <= StockIn(req[r].pre, req[r].key)
       /\ (/\ req[r].op = "addToCart"
           /\ StockIn(req[r].pre, req[r].key) < req[r].quantityIn)
          => /\ req[r].result # "Added"
             /\ cart[req[r].user] = req[r].preCart

====
